---- MODULE Spec2Model ----
(***************************************************************************)
(* State-machine model of streamlit_app.py: the number formatter           *)
(* (human_readable_number), the two cached upstream calls                  *)
(* (fetch_popular_videos, fetch_channel_statistics), the login gate        *)
(* (ensure_login) and the script run (main) that composes them.            *)
(***************************************************************************)
EXTENDS Integers, Sequences, FiniteSets, TLC

VARIABLES
    fmt_n,      \* argument n of the human_readable_number call under test
    fmt_unit,   \* argument unit of that call
    fmt_out,    \* what the call returned (NoValue before the call)
    fmt_idx     \* number of times the while loop divided (history)

fmtvars == <<fmt_n, fmt_unit, fmt_out, fmt_idx>>

VARIABLES
    ch_ids,       \* argument channel_ids of the fetch_channel_statistics call under test
    ch_uniq,      \* the distinct non-empty ids the list was built from, in order
    ch_up,        \* what the upstream does with the call's request
    ch_call,      \* what the call did (NoCall before the call)
    ch_rendered   \* the items owned by the list's channels, rendered with its result

chvars == <<ch_ids, ch_uniq, ch_up, ch_call, ch_rendered>>

NoValue == "<none>"

(***************************************************************************)
(* Integers of arbitrary size.  Python's int is unbounded and view counts  *)
(* pass 2^31, so an integer is kept as a sign and the big-endian sequence  *)
(* of its base-10000 digits, without leading zero (zero is <<0>>).         *)
(***************************************************************************)
Base == 10000

RECURSIVE ToLimbs(_)
ToLimbs(a) == IF a < Base THEN <<a>> ELSE Append(ToLimbs(a \div Base), a % Base)

\* A value for which int(n) succeeds.
IntVal(i) == [kind |-> "int", neg |-> i < 0, limbs |-> ToLimbs(IF i < 0 THEN -i ELSE i)]
\* A value for which int(n) raises (an already formatted string).
StrVal(s) == [kind |-> "str", text |-> s]

RECURSIVE LexLess(_, _)
LexLess(a, b) ==
    IF a = <<>> THEN FALSE
    ELSE IF Head(a) # Head(b) THEN Head(a) < Head(b)
    ELSE LexLess(Tail(a), Tail(b))

LimbsLess(a, b) == Len(a) < Len(b) \/ (Len(a) = Len(b) /\ LexLess(a, b))

RECURSIVE Inc(_)
Inc(l) ==
    IF l = <<>> THEN <<1>>
    ELSE IF l[Len(l)] + 1 < Base THEN [l EXCEPT ![Len(l)] = l[Len(l)] + 1]
    ELSE Append(Inc(SubSeq(l, 1, Len(l) - 1)), 0)

TwoTo53 == <<9007, 1992, 5474, 992>>
TwoTo54 == <<1, 8014, 3985, 948, 1984>>

(***************************************************************************)
(* float(int(n)), line 48: the nearest IEEE double, ties to the even       *)
(* mantissa.  Below 2^53 every integer is a double.  In [2^53, 2^54) the   *)
(* doubles are the even integers, so an odd integer goes to its neighbour  *)
(* that is a multiple of 4 (Base is a multiple of 4, so the last limb      *)
(* decides).  From 2^54 on the magnitude is kept: it is above 10^16, so    *)
(* the loop runs the whole ladder whatever the rounding (rounding is       *)
(* monotone and 10^16 is a double), and the relative error 2^-53 is far    *)
(* below the tenth that is printed.                                        *)
(***************************************************************************)
to_float(l) ==
    LET last == l[Len(l)] IN
    IF LimbsLess(l, TwoTo53) \/ ~LimbsLess(l, TwoTo54) \/ last % 2 = 0 THEN l
    ELSE IF (last + 1) % 4 = 0 THEN Inc(l)
    ELSE [l EXCEPT ![Len(l)] = last - 1]

\* units of line 53.  SANY's lexer rejects some Hangul syllables inside a string
\* (조, 비, 개), so every Korean glyph of the program is written in its
\* romanisation: 만 man, 억 eok, 조 jo, 경 gyeong, 회 hoe, 개 gae, 명 myeong,
\* 비공개 bigonggae.
units == <<"", "man", "eok", "jo", "gyeong">>

(***************************************************************************)
(* The while loop of lines 54-57 on value = ip + 0.fp, ip the limbs of the *)
(* integer part and fp those of the fraction: abs(value) >= 10000 is       *)
(* "ip has two limbs or more", and value /= 10000.0 moves the last limb of *)
(* ip to the front of fp.  (The quotient is rounded to a double each time; *)
(* a quotient below 10000 of a double integer stays below it, the nearest  *)
(* case being (10^16 - 2) / 10^12.)                                        *)
(***************************************************************************)
RECURSIVE ladder(_, _, _)
ladder(ip, fp, idx) ==
    IF Len(ip) >= 2 /\ idx < Len(units) - 1
    THEN ladder(SubSeq(ip, 1, Len(ip) - 1), <<ip[Len(ip)]>> \o fp, idx + 1)
    ELSE [ip |-> ip, fp |-> fp, idx |-> idx]

Pad3(v) == IF v < 10 THEN "00" \o ToString(v) ELSE IF v < 100 THEN "0" \o ToString(v) ELSE ToString(v)
Pad4(v) == IF v < 1000 THEN "0" \o Pad3(v) ELSE ToString(v)

\* f"{int(value):,}" of line 60, for a value below 10000.
Grouped(v) == IF v >= 1000 THEN ToString(v \div 1000) \o "," \o Pad3(v % 1000) ELSE ToString(v)

RECURSIVE Digits(_)
Digits(l) == IF Len(l) = 1 THEN ToString(l[1]) ELSE Digits(SubSeq(l, 1, Len(l) - 1)) \o Pad4(l[Len(l)])

AllZero(s) == \A i \in 1..Len(s) : s[i] = 0

(***************************************************************************)
(* f"{value:.1f}".rstrip("0").rstrip(".") of line 62, for idx >= 1 (so fp  *)
(* is not empty): the tenth is rounded on the digits after it; an exact    *)
(* half goes to the even tenth when the value is a double (x.25, x.75).    *)
(* The other exact halves (x.05, x.15, ...) are no doubles and the binary  *)
(* expansion decides them: they are outside the values drawn here, and the *)
(* CASE has no arm for them.                                               *)
(***************************************************************************)
compact(ip, fp) ==
    LET d    == fp[1] \div 1000
        r    == fp[1] % 1000
        rest == Tail(fp)
        up   == CASE r > 500 \/ (r = 500 /\ ~AllZero(rest)) -> TRUE
                  [] r < 500 -> FALSE
                  [] r = 500 /\ AllZero(rest) /\ d = 2 -> FALSE
                  [] r = 500 /\ AllZero(rest) /\ d = 7 -> TRUE
        t    == IF up THEN d + 1 ELSE d
        whole == IF t = 10 THEN Inc(ip) ELSE ip
        tenth == IF t = 10 THEN 0 ELSE t
    IN  Digits(whole) \o (IF tenth = 0 THEN "" ELSE "." \o ToString(tenth))

\* Lines 43-63, with the number of divisions kept beside the text.
hrn_parts(n, unit) ==
    IF n.kind # "int" THEN [idx |-> 0, text |-> n.text]
    ELSE LET v    == ladder(to_float(n.limbs), <<>>, 0)
             sign == IF n.neg THEN "-" ELSE ""
         IN  IF v.idx = 0
             THEN [idx |-> 0, text |-> sign \o Grouped(v.ip[1]) \o unit]
             ELSE [idx |-> v.idx,
                   text |-> sign \o compact(v.ip, v.fp) \o units[v.idx + 1] \o unit]

human_readable_number(n, unit) == hrn_parts(n, unit).text

(***************************************************************************)
(* Upstream data.  A count of the API is an integer (sent as a numeric     *)
(* string), JSON null, or absent from its object.                          *)
(***************************************************************************)
Missing == [kind |-> "missing"]
Null == [kind |-> "null"]

Item(id, channelId, viewCount, likeCount, commentCount) ==
    [id |-> id, channelId |-> channelId, viewCount |-> viewCount,
     likeCount |-> likeCount, commentCount |-> commentCount]

\* dict.get(key, default) on a count: the default only when the key is absent;
\* a null stays None, and str(None) is what line 51 returns for it.
get(v, default) ==
    IF v = Missing THEN default ELSE IF v = Null THEN StrVal("None") ELSE v

\* The sentinel of lines 171, 172 and 176 (비공개).
NOT_DISCLOSED == "bigonggae"

(***************************************************************************)
(* render_video_item, lines 156-192: the texts one item is shown with.     *)
(* channel_stats_map is a function from channel ids to statistics, a       *)
(* statistics being [null, subscriberCount]: null when the upstream sent   *)
(* "statistics": null (line 178 reads it as {}).                           *)
(* render_video_item_zero_default is the same function were every count    *)
(* read as the view count of line 170 is, with a default of 0.             *)
(***************************************************************************)
render_video_item_zero_default(item, channel_stats_map) ==
    LET shown(v, unit) == human_readable_number(get(v, IntVal(0)), unit)
        known == item.channelId # "" /\ item.channelId \in DOMAIN channel_stats_map
        subs  == IF known /\ ~channel_stats_map[item.channelId].null
                 THEN channel_stats_map[item.channelId].subscriberCount ELSE Missing
    IN  [vid |-> item.id, subs |-> shown(subs, "myeong"),
         views |-> shown(item.viewCount, "hoe"),
         likes |-> shown(item.likeCount, "gae"),
         comments |-> shown(item.commentCount, "gae")]

render_video_item(item, channel_stats_map) ==
    LET views    == human_readable_number(get(item.viewCount, IntVal(0)), "hoe")
        likes    == IF item.likeCount # Missing /\ item.likeCount # Null
                    THEN human_readable_number(get(item.likeCount, IntVal(0)), "gae")
                    ELSE NOT_DISCLOSED
        comments == IF item.commentCount # Missing /\ item.commentCount # Null
                    THEN human_readable_number(get(item.commentCount, IntVal(0)), "gae")
                    ELSE NOT_DISCLOSED
        channel_id == item.channelId
        subs_text ==
            IF channel_id # "" /\ channel_id \in DOMAIN channel_stats_map
            THEN LET ch_stats == channel_stats_map[channel_id]
                     subs == IF ch_stats.null THEN Missing ELSE ch_stats.subscriberCount
                 IN  IF subs # Missing /\ subs # Null
                     THEN human_readable_number(subs, "myeong")
                     ELSE NOT_DISCLOSED
            ELSE NOT_DISCLOSED
    IN  [vid |-> item.id, subs |-> subs_text, views |-> views,
         likes |-> likes, comments |-> comments]

\* The loop of lines 284-286, were it to walk the listing from its end.
render_items_reversed(items, channel_stats_map) ==
    [i \in 1..Len(items) |->
        render_video_item(items[Len(items) + 1 - i], channel_stats_map)]

\* The loop of lines 284-286.
render_items(items, channel_stats_map) ==
    [i \in 1..Len(items) |-> render_video_item(items[i], channel_stats_map)]

(***************************************************************************)
(* st.cache_data(ttl=300), lines 66 and 81.  A store is a set of entries   *)
(* [key, t, val], at most one per key; the key is the tuple of the call's  *)
(* arguments as passed.  An entry answers calls made less than TTL after   *)
(* it was stored (reading it does not renew it); a call that raises stores *)
(* nothing.  body is what running the function would do on a miss.         *)
(***************************************************************************)
TTL == 300

Fresh(cache, t) == {e \in cache : t - e.t < TTL}

\* The function without its decorator: the body runs at every call.
cache_data_uncached(cache, key, t, body) ==
    [cache |-> Fresh(cache, t), hit |-> FALSE, net |-> body.net, query |-> body.query,
     raised |-> body.raised, err |-> body.err, val |-> body.val]

cache_data(cache, key, t, body) ==
    LET hits == {e \in Fresh(cache, t) : e.key = key} IN
    IF hits # {}
    THEN [cache |-> Fresh(cache, t), hit |-> TRUE, net |-> FALSE, query |-> <<>>,
          raised |-> FALSE, err |-> "", val |-> (CHOOSE e \in hits : TRUE).val]
    ELSE [cache |-> IF body.raised THEN Fresh(cache, t)
                    ELSE {e \in Fresh(cache, t) : e.key # key}
                         \cup {[key |-> key, t |-> t, val |-> body.val]},
          hit |-> FALSE, net |-> body.net, query |-> body.query,
          raised |-> body.raised, err |-> body.err, val |-> body.val]

\* The body of fetch_popular_videos, lines 69-78: one request; up is what the
\* upstream does with it, [err, items] with err = "" for a 2xx answer.
popular_body(up) ==
    [net |-> TRUE, query |-> <<>>, raised |-> up.err # "", err |-> up.err,
     val |-> IF up.err # "" THEN <<>> ELSE up.items]

fetch_popular_videos(cache, api_key, region_code, max_results, t, up) ==
    cache_data(cache, <<api_key, region_code, max_results>>, t, popular_body(up))

\* list(dict.fromkeys([cid for cid in channel_ids if cid])), line 88: the
\* entries that are not empty and do not repeat an earlier entry, in order.
unique_ids(channel_ids) ==
    LET first_seen(i) == /\ channel_ids[i] # ""
                         /\ \A j \in 1..(i - 1) : channel_ids[j] # channel_ids[i]
        kept == SelectSeq([i \in 1..Len(channel_ids) |-> i], first_seen)
    IN  [k \in 1..Len(kept) |-> channel_ids[kept[k]]]

\* Line 91 without its slice.
head_all(ids) == ids

\* unique_ids[:50], line 91.
BATCH == 50
head50(ids) == SubSeq(ids, 1, IF Len(ids) < BATCH THEN Len(ids) ELSE BATCH)

\* Lines 97-100: the mapping built from the answer's items, [id, statistics];
\* a later item with the same id overwrites an earlier one.
stats_out(answer) ==
    [cid \in {answer[i].id : i \in 1..Len(answer)} |->
        answer[CHOOSE i \in 1..Len(answer) :
                  /\ answer[i].id = cid
                  /\ \A j \in (i + 1)..Len(answer) : answer[j].id # cid].statistics]

\* What the channels endpoint answers to a request for the ids of query, by
\* pattern: "zero", every id with subscriberCount 0; "mixed", the first id with
\* a count, the second with its count hidden and the others left out; "null",
\* every id with "statistics": null; "none", no item.
Stat(null, subscriberCount) == [null |-> null, subscriberCount |-> subscriberCount]

Answer(pattern, query) ==
    CASE pattern = "zero" ->
            [i \in 1..Len(query) |-> [id |-> query[i], statistics |-> Stat(FALSE, IntVal(0))]]
      [] pattern = "mixed" ->
            [i \in 1..(IF Len(query) < 2 THEN Len(query) ELSE 2) |->
                [id |-> query[i],
                 statistics |-> IF i = 1 THEN Stat(FALSE, IntVal(1730000))
                                ELSE Stat(FALSE, Missing)]]
      [] pattern = "null" ->
            [i \in 1..Len(query) |-> [id |-> query[i], statistics |-> Stat(TRUE, Missing)]]
      [] pattern = "none" -> <<>>

\* The body of fetch_channel_statistics, lines 86-101; up is what the upstream
\* does with the request, [err, pattern] with err = "" for a 2xx answer.
channel_body(channel_ids, up) ==
    IF channel_ids = <<>>
    THEN [net |-> FALSE, query |-> <<>>, raised |-> FALSE, err |-> "", val |-> <<>>]
    ELSE LET query == head50(unique_ids(channel_ids)) IN
         [net |-> TRUE, query |-> query, raised |-> up.err # "", err |-> up.err,
          val |-> IF up.err # "" THEN <<>> ELSE stats_out(Answer(up.pattern, query))]

\* Lines 82-101 without the decorator of line 81.
fetch_channel_statistics_undecorated(cache, api_key, channel_ids, t, up) ==
    cache_data_uncached(cache, <<api_key, channel_ids>>, t, channel_body(channel_ids, up))

fetch_channel_statistics(cache, api_key, channel_ids, t, up) ==
    cache_data(cache, <<api_key, channel_ids>>, t, channel_body(channel_ids, up))


(***************************************************************************)
(* The application: one session of the dashboard.                          *)
(***************************************************************************)
VARIABLES
    YOUTUBE_API_KEY,  \* line 22
    AUTH_USERNAME,    \* line 31
    AUTH_PASSWORD,    \* line 32
    is_authed,        \* st.session_state.is_authed (absent reads as False, line 129)
    region,           \* the region widget, lines 234-239
    max_results,      \* the slider, line 241
    popular_cache,    \* the store of fetch_popular_videos
    channel_cache,    \* the store of fetch_channel_statistics
    now,              \* the clock the stores read
    pc,               \* "idle", or "rerun" when a rerun is queued
    nruns,            \* script runs the user started (history)
    last,             \* what the last script run did (history)
    pending_clear     \* the entries of fetch_popular_videos dropped by clear()
                      \* since its last call (history)

appvars == <<YOUTUBE_API_KEY, AUTH_USERNAME, AUTH_PASSWORD, is_authed, region,
             max_results, popular_cache, channel_cache, now, pc, nruns, last,
             pending_clear>>

NoCall == [made |-> FALSE]
NoClear == [done |-> FALSE, dropped |-> {}]
Call(key, t, r) ==
    [made |-> TRUE, key |-> key, t |-> t, hit |-> r.hit, net |-> r.net,
     query |-> r.query, raised |-> r.raised, val |-> r.val]

(***************************************************************************)
(* ensure_login, lines 126-153.  ev is what the user did to start the run; *)
(* the form is submitted only by ev = "login", with username and password. *)
(* rerun is the st.rerun() of line 150.                                    *)
(***************************************************************************)
\* Line 147 comparing the username alone.
ensure_login_username_only(authed, ev, username, password) ==
    IF AUTH_USERNAME = "" \/ AUTH_PASSWORD = ""
    THEN [ret |-> TRUE, is_authed |-> TRUE, rerun |-> FALSE]
    ELSE IF authed
    THEN [ret |-> TRUE, is_authed |-> TRUE, rerun |-> FALSE]
    ELSE IF ev = "login" /\ username = AUTH_USERNAME
    THEN [ret |-> FALSE, is_authed |-> TRUE, rerun |-> TRUE]
    ELSE [ret |-> FALSE, is_authed |-> FALSE, rerun |-> FALSE]

ensure_login(authed, ev, username, password) ==
    IF AUTH_USERNAME = "" \/ AUTH_PASSWORD = ""
    THEN [ret |-> TRUE, is_authed |-> TRUE, rerun |-> FALSE]
    ELSE IF authed
    THEN [ret |-> TRUE, is_authed |-> TRUE, rerun |-> FALSE]
    ELSE IF ev = "login" /\ username = AUTH_USERNAME /\ password = AUTH_PASSWORD
    THEN [ret |-> FALSE, is_authed |-> TRUE, rerun |-> TRUE]
    ELSE [ret |-> FALSE, is_authed |-> FALSE, rerun |-> FALSE]

\* validate_env, lines 104-123: TRUE, or st.stop() when the key is not set.
validate_env == YOUTUBE_API_KEY # ""

\* Those lines without the first of the two calls.
clear_channel_cache_only(r) ==
    [r EXCEPT !.channel_cache = {}]

\* The two clear() calls of lines 211-212 and 245-246.
clear_caches(r) ==
    [r EXCEPT !.popular_cache = {}, !.channel_cache = {}]

\* Lines 209-213: the logout button.
logout(r) ==
    [clear_caches(r) EXCEPT !.is_authed = FALSE, !.rerun = TRUE, !.outcome = "logout"]

\* Lines 243-247: the refresh button.  st.experimental_rerun() restarts the run
\* where the installed Streamlit still has it and raises AttributeError where
\* it was removed: has_rerun is which.
refresh(r, has_rerun) ==
    [clear_caches(r) EXCEPT !.rerun = has_rerun, !.sidebar = TRUE, !.outcome = "refresh"]

\* Lines 279-282 with the handler of line 252 (requests.HTTPError) in place of
\* except Exception.
try_channel_http_only(c) ==
    [uncaught |-> c.raised /\ c.err # "HTTPError",
     channel_stats_map |-> IF c.raised THEN <<>> ELSE c.val]

\* Lines 279-282: the call inside try / except Exception.  c is what the call
\* did; whatever it raised is caught and the mapping is empty.
try_channel_statistics(c) ==
    [uncaught |-> FALSE, channel_stats_map |-> IF c.raised THEN <<>> ELSE c.val]

(***************************************************************************)
(* main, lines 195-288: one script run, as the record of what it leaves.   *)
(* reg and mx are what the widgets hold, upP and upC what the upstream     *)
(* does with a request of this run to the videos and channels endpoints.   *)
(***************************************************************************)
main(ev, username, password, reg, mx, upP, upC, has_rerun) ==
    LET r0 == [is_authed |-> is_authed, region |-> region, max_results |-> max_results,
               popular_cache |-> popular_cache, channel_cache |-> channel_cache,
               rerun |-> FALSE, ev |-> ev, username |-> username, password |-> password,
               authed0 |-> is_authed, outcome |-> "stopped",
               error |-> "", sidebar |-> FALSE, popular |-> NoCall, channel |-> NoCall,
               channel_stats_map |-> <<>>, rendered |-> <<>>]
        g  == ensure_login(is_authed, ev, username, password)
        r1 == [r0 EXCEPT !.is_authed = g.is_authed, !.rerun = g.rerun,
                         !.outcome = IF g.rerun THEN "login_ok" ELSE "login_form"]
        r2 == [r1 EXCEPT !.region = reg, !.max_results = mx, !.sidebar = TRUE]
        p  == fetch_popular_videos(popular_cache, YOUTUBE_API_KEY, reg, mx, now, upP)
        pcall == Call(<<YOUTUBE_API_KEY, reg, mx>>, now, p)
        r3 == [r2 EXCEPT !.popular_cache = p.cache, !.popular = pcall,
                         !.error = p.err,
                         !.outcome = IF p.raised THEN "error" ELSE "empty"]
        items == p.val
        channel_ids == [i \in 1..Len(items) |-> items[i].channelId]
        c  == fetch_channel_statistics(channel_cache, YOUTUBE_API_KEY, channel_ids, now, upC)
        ccall == Call(<<YOUTUBE_API_KEY, channel_ids>>, now, c)
        tried == try_channel_statistics(c)
        r4 == [r3 EXCEPT !.channel_cache = c.cache, !.channel = ccall,
                         !.outcome = "uncaught"]
    IN  IF ~validate_env THEN r0
        ELSE IF ~g.ret THEN r1
        ELSE IF ev = "logout" THEN logout(r1)
        ELSE IF ev = "refresh" THEN refresh(r2, has_rerun)
        ELSE IF p.raised \/ items = <<>> THEN r3
        ELSE IF tried.uncaught THEN r4
        ELSE [r4 EXCEPT !.channel_stats_map = tried.channel_stats_map,
                        !.rendered = render_items(items, tried.channel_stats_map),
                        !.outcome = "rendered"]

\* The fields of a run's record that are kept as history in last, with the
\* outcome of the run before it and the clear() this run's call comes after.
Report(r) ==
    [ev |-> r.ev, username |-> r.username, password |-> r.password,
     authed0 |-> r.authed0, outcome |-> r.outcome, error |-> r.error,
     after |-> last.outcome,
     cleared |-> IF r.popular.made THEN pending_clear ELSE NoClear,
     sidebar |-> r.sidebar,
     rerun |-> r.rerun, popular |-> r.popular, channel |-> r.channel,
     channel_stats_map |-> r.channel_stats_map, rendered |-> r.rendered]

\* A script run happens: the state it leaves.
Ran(r) ==
    /\ is_authed' = r.is_authed
    /\ region' = r.region
    /\ max_results' = r.max_results
    /\ popular_cache' = r.popular_cache
    /\ channel_cache' = r.channel_cache
    /\ pc' = IF r.rerun THEN "rerun" ELSE "idle"
    /\ last' = Report(r)
    /\ pending_clear' =
          IF r.outcome \in {"logout", "refresh"}
          THEN [done |-> TRUE, dropped |-> pending_clear.dropped \cup Fresh(popular_cache, now)]
          ELSE IF r.popular.made THEN NoClear
          ELSE pending_clear
    /\ UNCHANGED <<YOUTUBE_API_KEY, AUTH_USERNAME, AUTH_PASSWORD, now>>
    /\ UNCHANGED <<fmtvars, chvars>>


(***************************************************************************)
(* What the model draws from: the regions and slider positions used, the   *)
(* listings the videos endpoint may answer, and the two endpoints'         *)
(* outcomes.                                                               *)
(***************************************************************************)
DEFAULT_REGION == "KR"
Regions == {"KR", "US"}
DEFAULT_MAX_RESULTS == 30
Sliders == {30, 50}

ItemA == Item("a", "c1", IntVal(15000), IntVal(0), Missing)
ItemB == Item("b", "c2", IntVal(27700000), Null, IntVal(9999))
ItemC == Item("c", "", Missing, IntVal(1730000), IntVal(0))
ItemD == Item("d", "c1", Null, Missing, Null)

Listings == {<<ItemA, ItemB>>, <<ItemC, ItemB, ItemD, ItemA>>, <<ItemC>>, <<>>}

\* requests.HTTPError (raise_for_status), requests.Timeout, any other exception.
Errors == {"HTTPError", "Timeout", "Exception"}

PopularUps ==
    {[err |-> "", items |-> l] : l \in Listings}
    \cup {[err |-> e, items |-> <<>>] : e \in Errors}

ChannelUps ==
    {[err |-> "", pattern |-> q] : q \in {"zero", "mixed", "null", "none"}}
    \cup {[err |-> e, pattern |-> "none"] : e \in Errors}

NoUp == [err |-> "", items |-> <<>>, pattern |-> "none"]

\* The configured login pairs tried: both set (the gate is on), and each one
\* empty in turn (public mode).
Credentials == {<<"admin", "changeme">>, <<"", "changeme">>, <<"admin", "">>}

MaxRuns == 2
MaxGateRuns == 4
MaxTicks == 2

(***************************************************************************)
(* Two explorations of the same program.  Wide draws every region and      *)
(* upstream outcome above over a few runs; Deep follows the session        *)
(* through more runs (visit, failed login, login, logout) with one region, *)
(* every slider position, one listing and one answer.                      *)
(***************************************************************************)
Wide == [regions |-> Regions, sliders |-> {DEFAULT_MAX_RESULTS}, popular |-> PopularUps, channel |-> ChannelUps,
         runs |-> MaxRuns]
Deep == [regions |-> {DEFAULT_REGION}, sliders |-> Sliders,
         popular |-> {[err |-> "", items |-> <<ItemA, ItemB>>],
                      [err |-> "Timeout", items |-> <<>>]},
         channel |-> {[err |-> "", pattern |-> "mixed"]},
         runs |-> MaxGateRuns]

Start ==
    [ev |-> "", username |-> "", password |-> "", authed0 |-> FALSE, outcome |-> "start",
     error |-> "", after |-> "", cleared |-> NoClear, sidebar |-> FALSE,
     rerun |-> FALSE, popular |-> NoCall, channel |-> NoCall,
     channel_stats_map |-> <<>>, rendered |-> <<>>]

AppInit ==
    /\ YOUTUBE_API_KEY \in {"", "KEY"}
    /\ \E c \in Credentials : AUTH_USERNAME = c[1] /\ AUTH_PASSWORD = c[2]
    /\ is_authed = FALSE
    /\ region = DEFAULT_REGION
    /\ max_results = DEFAULT_MAX_RESULTS
    /\ popular_cache = {}
    /\ channel_cache = {}
    /\ now = 0
    /\ pc = "idle"
    /\ nruns = 0
    /\ last = Start
    /\ pending_clear = NoClear

UserRun(u) == pc = "idle" /\ nruns < u.runs /\ nruns' = nruns + 1

(***************************************************************************)
(* The upstream outcomes a run with the widgets at reg and mx can meet: an *)
(* endpoint's outcome is drawn only when the run sends it a request, that  *)
(* is when the call is not answered by the store (NoUp otherwise).         *)
(***************************************************************************)
PopularMet(u, reg, mx) ==
    IF fetch_popular_videos(popular_cache, YOUTUBE_API_KEY, reg, mx, now, NoUp).net
    THEN u.popular ELSE {NoUp}

ChannelMet(u, reg, mx, upP) ==
    LET items == fetch_popular_videos(popular_cache, YOUTUBE_API_KEY, reg, mx, now, upP).val
        channel_ids == [i \in 1..Len(items) |-> items[i].channelId]
    IN  IF items # <<>> /\ fetch_channel_statistics(channel_cache, YOUTUBE_API_KEY,
                                                    channel_ids, now, NoUp).net
        THEN u.channel ELSE {NoUp}

\* The user opens or reloads the page, or moves a widget of the sidebar.
Visit(u) ==
    /\ UserRun(u)
    /\ \E reg \in u.regions, mx \in u.sliders :
          /\ last.sidebar \/ (reg = region /\ mx = max_results)
          /\ \E upP \in PopularMet(u, reg, mx) : \E upC \in ChannelMet(u, reg, mx, upP) :
                Ran(main("none", "", "", reg, mx, upP, upC, FALSE))

\* The user submits the login form.
Login(u) ==
    /\ UserRun(u)
    /\ last.outcome = "login_form"
    /\ \E username \in {"admin", "guest"}, password \in {"changeme", "wrong"} :
          Ran(main("login", username, password, region, max_results, NoUp, NoUp, FALSE))

\* The user presses the logout button.
Logout(u) ==
    /\ UserRun(u)
    /\ last.sidebar
    /\ Ran(main("logout", "", "", region, max_results, NoUp, NoUp, FALSE))

\* The user presses the refresh button.
Refresh(u) ==
    /\ UserRun(u)
    /\ last.sidebar
    /\ \E has_rerun \in BOOLEAN :
          Ran(main("refresh", "", "", region, max_results, NoUp, NoUp, has_rerun))

\* The run queued by st.rerun() or st.experimental_rerun().
Rerun(u) ==
    /\ pc = "rerun"
    /\ UNCHANGED nruns
    /\ \E upP \in PopularMet(u, region, max_results) :
          \E upC \in ChannelMet(u, region, max_results, upP) :
             Ran(main("none", "", "", region, max_results, upP, upC, FALSE))

\* Time passes between two runs.
Tick ==
    /\ pc = "idle"
    /\ now + TTL \div 2 <= MaxTicks * (TTL \div 2)
    /\ now' = now + TTL \div 2
    /\ UNCHANGED <<YOUTUBE_API_KEY, AUTH_USERNAME, AUTH_PASSWORD, is_authed, region,
                   max_results, popular_cache, channel_cache, pc, nruns, last,
                   pending_clear>>
    /\ UNCHANGED <<fmtvars, chvars>>

(***************************************************************************)
(* Specification of fetch_channel_statistics alone: a list of owner ids is *)
(* drawn, the function is called once on empty stores and the items owned  *)
(* by the list's channels are rendered with what it returned, as lines     *)
(* 278-286 do.  The lists are built from MaxUnique or fewer distinct ids,  *)
(* so that the 50 of line 91 is passed.                                    *)
(***************************************************************************)
MaxUnique == 52

Cid(i) == "UC" \o ToString(i)
Uniq(n) == [i \in 1..n |-> Cid(i)]

\* The list of shape sh built from the ids of Uniq(n).
IdList(sh, n) ==
    CASE sh = "plain" -> Uniq(n)
      [] sh = "twice" -> [i \in 1..(2 * n) |-> Cid((i + 1) \div 2)]
      [] sh = "echo"  -> [i \in 1..(2 * n) |-> IF i <= n THEN Cid(i) ELSE Cid(2 * n + 1 - i)]
      [] sh = "holes" -> [i \in 1..(2 * n) |-> IF i % 2 = 1 THEN "" ELSE Cid(i \div 2)]
      [] sh = "blank" -> [i \in 1..n |-> ""]

Shapes == {"plain", "twice", "echo", "holes", "blank"}

\* One item per entry of the list, owned by that channel.
ItemsOf(ids) ==
    [i \in 1..Len(ids) |-> Item("v" \o ToString(i), ids[i], IntVal(1), Null, Missing)]

ChanInit ==
    /\ \E sh \in Shapes, n \in 0..MaxUnique :
          /\ ch_ids = IdList(sh, n)
          /\ ch_uniq = IF sh = "blank" THEN <<>> ELSE Uniq(n)
    /\ ch_up = NoUp
    /\ ch_call = NoCall
    /\ ch_rendered = <<>>

ChannelCall ==
    /\ ch_call = NoCall
    /\ \E up \in ChannelUps :
          LET c == fetch_channel_statistics({}, "KEY", ch_ids, 0, up) IN
          /\ ch_up' = up
          /\ ch_call' = Call(<<"KEY", ch_ids>>, 0, c)
          /\ ch_rendered' = render_items(ItemsOf(ch_ids),
                                         try_channel_statistics(c).channel_stats_map)
    /\ UNCHANGED <<ch_ids, ch_uniq>>

(***************************************************************************)
(* Specification of the formatter alone: an input is drawn, the function   *)
(* is applied once.                                                        *)
(***************************************************************************)
MaxLimbs == 5
LimbVals == {0, 1, 173, 2770, 5000, 9999}

RECURSIVE LimbSeqs(_)
LimbSeqs(k) ==
    IF k = 1 THEN {<<v>> : v \in LimbVals}
    ELSE {Append(s, v) : s \in {q \in LimbSeqs(k - 1) : q[1] # 0}, v \in LimbVals}

FmtInputs ==
    {x \in {[kind |-> "int", neg |-> sg, limbs |-> l] :
                sg \in BOOLEAN, l \in UNION {LimbSeqs(k) : k \in 1..MaxLimbs}} :
        ~(x.neg /\ x.limbs = <<0>>)}
    \cup {StrVal("not-a-number"), StrVal("1.5man")}

FmtInit ==
    /\ fmt_n \in FmtInputs
    /\ fmt_unit \in {"X", "hoe"}
    /\ fmt_out = NoValue
    /\ fmt_idx = 0

Format ==
    /\ fmt_out = NoValue
    /\ fmt_out' = human_readable_number(fmt_n, fmt_unit)
    /\ fmt_idx' = hrn_parts(fmt_n, fmt_unit).idx
    /\ UNCHANGED <<fmt_n, fmt_unit>>

(***************************************************************************)
(* The specifications.  Each one moves its own variables and holds the     *)
(* others at a fixed value.                                                *)
(***************************************************************************)
vars == <<appvars, fmtvars, chvars>>

FmtIdle == fmt_n = IntVal(0) /\ fmt_unit = "" /\ fmt_out = NoValue /\ fmt_idx = 0

AppIdle ==
    /\ YOUTUBE_API_KEY = "KEY" /\ AUTH_USERNAME = "" /\ AUTH_PASSWORD = ""
    /\ is_authed = FALSE /\ region = DEFAULT_REGION /\ max_results = DEFAULT_MAX_RESULTS
    /\ popular_cache = {} /\ channel_cache = {} /\ now = 0 /\ pc = "idle"
    /\ nruns = 0 /\ last = Start /\ pending_clear = NoClear

ChanIdle ==
    /\ ch_ids = <<>> /\ ch_uniq = <<>> /\ ch_up = NoUp /\ ch_call = NoCall
    /\ ch_rendered = <<>>

Init == AppInit /\ FmtIdle /\ ChanIdle

Next ==
    \/ Visit(Wide) \/ Login(Wide) \/ Logout(Wide) \/ Refresh(Wide) \/ Rerun(Wide)
    \/ Tick

Spec == Init /\ [][Next]_vars

DeepNext ==
    \/ Visit(Deep) \/ Login(Deep) \/ Logout(Deep) \/ Refresh(Deep) \/ Rerun(Deep)
    \/ Tick

SpecDeep == Init /\ [][DeepNext]_vars

FmtNext == Format /\ UNCHANGED <<appvars, chvars>>

FmtSpecInit == FmtInit /\ AppIdle /\ ChanIdle

ChanNext == ChannelCall /\ UNCHANGED <<appvars, fmtvars>>

ChanSpecInit == ChanInit /\ AppIdle /\ FmtIdle

SpecChan == ChanSpecInit /\ [][ChanNext]_vars

SpecFmt == FmtSpecInit /\ [][FmtNext]_vars

(***************************************************************************)
(* Properties of a script run, read from the record of the last run.       *)
(***************************************************************************)
ListingShown ==
    last.popular.made /\ ~last.popular.raised /\ last.popular.val # <<>>

SameOrder ==
    /\ Len(last.rendered) = Len(last.popular.val)
    /\ \A i \in 1..Len(last.rendered) : last.rendered[i].vid = last.popular.val[i].id

\* C7: whenever the listing call returns a non-empty listing the run renders
\* it, one record per item and the i-th record from the i-th item, whatever
\* the owner statistics are.
C7_RenderedInListingOrder ==
    ListingShown => last.outcome = "rendered" /\ SameOrder

C7_Witness ==
    /\ last.outcome = "rendered"
    /\ Len(last.rendered) = 4
    /\ DOMAIN last.channel_stats_map # {}
    /\ \A i, j \in 1..4 : i # j => last.popular.val[i].id # last.popular.val[j].id

\* C3: when the listing call returned at least one item and the owner
\* statistics call raised (whatever it raised), the run still renders every
\* item in order, with the empty mapping, and every subscriber field is the
\* sentinel.
C3_OwnerStatsFailureDegrades ==
    (ListingShown /\ last.channel.made /\ last.channel.raised) =>
        /\ last.outcome = "rendered"
        /\ last.channel_stats_map = <<>>
        /\ SameOrder
        /\ \A i \in 1..Len(last.rendered) : last.rendered[i].subs = NOT_DISCLOSED

C3_Witness ==
    /\ ListingShown /\ last.channel.made /\ last.channel.raised
    /\ Len(last.rendered) >= 2
    /\ \E i \in 1..Len(last.popular.val) : last.popular.val[i].channelId # ""

\* The subscriber count the mapping of the last run holds for an item.
SubsOf(item) ==
    IF item.channelId \notin DOMAIN last.channel_stats_map THEN Missing
    ELSE IF last.channel_stats_map[item.channelId].null THEN Missing
    ELSE last.channel_stats_map[item.channelId].subscriberCount

Absent(v) == v = Missing \/ v = Null

\* C8: in every rendered record an absent like, comment or subscriber count is
\* shown as the sentinel, and a count present with value zero as the formatted
\* zero.
C8_AbsentIsNotZero ==
    last.outcome = "rendered" =>
        \A i \in 1..Len(last.rendered) :
            LET item == last.popular.val[i]
                rec  == last.rendered[i]
            IN  /\ Absent(item.likeCount) => rec.likes = NOT_DISCLOSED
                /\ Absent(item.commentCount) => rec.comments = NOT_DISCLOSED
                /\ Absent(SubsOf(item)) => rec.subs = NOT_DISCLOSED
                /\ item.likeCount = IntVal(0) => rec.likes = "0gae"
                /\ item.commentCount = IntVal(0) => rec.comments = "0gae"
                /\ SubsOf(item) = IntVal(0) => rec.subs = "0myeong"

C8_Witness ==
    /\ last.outcome = "rendered"
    /\ \E i, j, k, m \in 1..Len(last.rendered) :
          /\ last.popular.val[i].channelId \notin DOMAIN last.channel_stats_map
          /\ last.rendered[i].subs = NOT_DISCLOSED
          /\ SubsOf(last.popular.val[j]) = IntVal(0)
          /\ last.rendered[j].subs = "0myeong"
          /\ last.popular.val[k].likeCount = Missing
          /\ last.popular.val[k].commentCount = Null
          /\ last.rendered[k].likes = NOT_DISCLOSED
          /\ last.popular.val[m].commentCount = IntVal(0)
          /\ last.rendered[m].comments = "0gae"

\* C2: the run of a refresh or of a logout leaves both stores empty, and the
\* first fetch_popular_videos call after it sends a request to the upstream
\* and is not answered from the store.
C2_ClearForcesUpstreamCall ==
    /\ last.outcome \in {"logout", "refresh"} => popular_cache = {} /\ channel_cache = {}
    /\ (last.popular.made /\ last.cleared.done) => last.popular.net /\ ~last.popular.hit

C2_Witness ==
    /\ last.popular.made /\ last.cleared.done /\ last.popular.net
    /\ \E e \in last.cleared.dropped :
          e.key = last.popular.key /\ last.popular.t - e.t < TTL

\* C4 as stated: a fetch_channel_statistics call whose list holds no non-empty
\* id sends no request and returns the empty mapping.
C4_NoRequestWithoutIds ==
    (last.channel.made /\ \A i \in 1..Len(last.channel.key[2]) : last.channel.key[2][i] = "") =>
        ~last.channel.net /\ last.channel.val = <<>>

(***************************************************************************)
(* Properties of two script runs in a row: a step that is a run takes the  *)
(* record of the run before it (last) to its own (last'), and no run, so   *)
(* no clear(), happens between the two.                                    *)
(***************************************************************************)
RunStep == nruns' # nruns \/ pc = "rerun"

TwoPopularCalls ==
    /\ RunStep /\ last.popular.made /\ last'.popular.made
    /\ last'.popular.key = last.popular.key
    /\ last'.popular.t - last.popular.t < TTL

SecondPopularFromStore ==
    /\ last'.popular.hit /\ ~last'.popular.net /\ ~last'.popular.raised
    /\ last'.popular.val = last.popular.val

\* C1 as stated: of two fetch_popular_videos calls in a row with the same
\* arguments, less than TTL apart, the second is answered from the store with
\* the result of the first.
C1_AnySecondCallFromStore == [][TwoPopularCalls => SecondPopularFromStore]_vars

\* C1: of two fetch_popular_videos calls in a row with the same arguments, less
\* than TTL apart, the first of which sent its request and returned, the
\* second sends no request and returns the result of the first from the store.
C1_SecondCallFromStore ==
    [][(TwoPopularCalls /\ last.popular.net /\ ~last.popular.raised)
          => SecondPopularFromStore]_vars

C1_Witness ==
    /\ last.popular.made /\ last.popular.hit /\ last.popular.t > 0
    /\ last.popular.val # <<>>

NonEmptyIds(channel_ids) == {channel_ids[i] : i \in 1..Len(channel_ids)} \ {""}

TwoChannelCalls ==
    /\ RunStep /\ last.channel.made /\ last'.channel.made
    /\ last.channel.net /\ ~last.channel.raised
    /\ last'.channel.key[1] = last.channel.key[1]
    /\ last'.channel.t - last.channel.t < TTL

\* C5 as stated: of two fetch_channel_statistics calls in a row with the same
\* key and lists holding the same set of non-empty ids, less than TTL apart,
\* the first of which sent its request and returned, the second is answered
\* from the store.
C5_SameIdSetFromStore ==
    [][(TwoChannelCalls
          /\ NonEmptyIds(last'.channel.key[2]) = NonEmptyIds(last.channel.key[2]))
          => last'.channel.hit /\ ~last'.channel.net]_vars

\* C5: of two fetch_channel_statistics calls in a row with the same key and
\* the same list (same entries in the same order), less than TTL apart, the
\* first of which sent its request and returned, the second sends no request
\* and returns the result of the first from the store.
C5_SameListFromStore ==
    [][(TwoChannelCalls /\ last'.channel.key[2] = last.channel.key[2])
          => /\ last'.channel.hit /\ ~last'.channel.net /\ ~last'.channel.raised
             /\ last'.channel.val = last.channel.val]_vars

C5_Witness ==
    /\ last.channel.made /\ last.channel.hit /\ last.channel.t > 0
    /\ Cardinality(NonEmptyIds(last.channel.key[2])) >= 2

(***************************************************************************)
(* Properties of the formatter.                                            *)
(***************************************************************************)
\* The number of divisions by 10000 that take |n| below 10000, 4 at most.
LadderSteps(n) == IF Len(n.limbs) - 1 < 4 THEN Len(n.limbs) - 1 ELSE 4

\* C6 as stated: for every integer the function divides LadderSteps(n) times,
\* and it returns "-1.5manX", "2770manX" and "9,999X" for -15000, 27700000 and
\* 9999 with unit "X".
C6_LadderOfTheInteger ==
    (fmt_out # NoValue /\ fmt_n.kind = "int") =>
        /\ fmt_idx = LadderSteps(fmt_n)
        /\ (fmt_n = [IntVal(15000) EXCEPT !.neg = TRUE] /\ fmt_unit = "X") => fmt_out = "-1.5manX"
        /\ (fmt_n = IntVal(27700000) /\ fmt_unit = "X") => fmt_out = "2770manX"
        /\ (fmt_n = IntVal(9999) /\ fmt_unit = "X") => fmt_out = "9,999X"

(***************************************************************************)
(* Properties of a fetch_channel_statistics call on its own.               *)
(***************************************************************************)
FirstFifty == SubSeq(ch_uniq, 1, IF Len(ch_uniq) < 50 THEN Len(ch_uniq) ELSE 50)

\* C9: the request of a call asks for the first 50 distinct non-empty ids of
\* the list in first-seen order (all of them when fewer), the call raises only
\* when the upstream fails, and every item owned by a channel that was not
\* asked for shows the sentinel as its subscriber field.
C9_FirstFiftyQueried ==
    (ch_call.made /\ ch_call.net) =>
        /\ ch_call.query = FirstFifty
        /\ ch_call.raised <=> ch_up.err # ""
        /\ \A i \in 1..Len(ch_ids) :
              (\A j \in 1..Len(FirstFifty) : FirstFifty[j] # ch_ids[i])
                  => ch_rendered[i].subs = NOT_DISCLOSED

C9_Witness ==
    /\ ch_call.made /\ ch_call.net /\ ~ch_call.raised
    /\ Len(ch_uniq) > 50 /\ Len(ch_ids) > Len(ch_uniq)
    /\ \E i, j \in 1..Len(ch_ids) :
          /\ ch_rendered[i].subs = "0myeong"
          /\ ch_ids[j] # "" /\ ch_rendered[j].subs = NOT_DISCLOSED

(***************************************************************************)
(* Properties of the login gate.                                           *)
(***************************************************************************)
Gated == AUTH_USERNAME # "" /\ AUTH_PASSWORD # ""

RunDone == last.outcome # "start"

GateHolds ==
    /\ (Gated /\ RunDone /\ validate_env /\ ~last.authed0) =>
          /\ last.outcome \in {"login_form", "login_ok"}
          /\ ~last.popular.made /\ ~last.channel.made /\ last.rendered = <<>>
    /\ (Gated /\ (last.popular.made \/ last.channel.made \/ last.rendered # <<>>)) =>
          last.authed0 /\ is_authed
    /\ (Gated /\ RunDone /\ ~last.authed0 /\ is_authed) =>
          /\ last.ev = "login"
          /\ last.username = AUTH_USERNAME /\ last.password = AUTH_PASSWORD
    /\ last.outcome = "logout" => ~is_authed

====
